---- MODULE Spec2Model ----
(***************************************************************************)
(* Model of functions/aggregate-news/main.py: the fetch -> enrich -> store *)
(* pipeline of NewsAggregator and the HTTP entry point main(request).      *)
(*                                                                         *)
(* Text is modelled as sequences of one-character strings, so that         *)
(* str.lower(), str.replace() and get_text(strip=True) are computed rather *)
(* than assumed.  The outside world (HTTP responses, the clock, the AI     *)
(* service, Firestore) is the source of nondeterminism.                    *)
(***************************************************************************)
EXTENDS Integers, Sequences, FiniteSets, TLC

VARIABLES
    pc,              \* position of the invocation
    i,               \* number of SOURCES entries run() has fetched
    gemini_api_key,  \* self.gemini_api_key
    all_articles,    \* run()'s all_articles / the batch under processing
    now,             \* last value read from datetime.utcnow()
    db,              \* documents of collection 'articles', by document id
    stored,          \* return value of store_articles
    ai_calls,        \* number of model.generate_content calls issued
    fetched,         \* last fetch_news call: source, response, return value
    fetch_total,     \* sum of len(fetch_news(...)) over the sources fetched
    failed_sources,  \* number of sources whose fetch logged an error
    batch_in,        \* the batch as handed to process_with_gemini
    responses,       \* AI responses consumed, in call order
    writes,          \* per article of the stored batch: did set() complete
    summary,         \* return value of run()
    exc,             \* exception that escaped run(), if any
    result,          \* what main(request) handed back to the framework
    clock_step       \* pipeline runs: how far the clock moves between readings

vars == <<pc, i, gemini_api_key, all_articles, now, db, stored, ai_calls,
          fetched, fetch_total, failed_sources, batch_in, responses, writes,
          summary, exc, result, clock_step>>

(***************************************************************************)
(* Bounds of the explored environment.                                     *)
(***************************************************************************)
\* candidates per page in the single-call fetch specification
MaxElems == 2
\* records fetched in total by one pipeline run / size of an enriched batch
MaxBatch == 3
\* clock readings range over 0..MaxTime (microseconds after a whole second)
MaxTime == 1

(***************************************************************************)
(* Text helpers.                                                           *)
(***************************************************************************)
UpperChars == <<"A","B","C","D","E","F","G","H","I","J","K","L","M",
                "N","O","P","Q","R","S","T","U","V","W","X","Y","Z">>
LowerChars == <<"a","b","c","d","e","f","g","h","i","j","k","l","m",
                "n","o","p","q","r","s","t","u","v","w","x","y","z">>
DigitChars == <<"0","1","2","3","4","5","6","7","8","9">>

\* str.lower() for one character
LowerChar(c) ==
    IF \E k \in 1..Len(UpperChars) : UpperChars[k] = c
    THEN LowerChars[CHOOSE k \in 1..Len(UpperChars) : UpperChars[k] = c]
    ELSE c

\* str.lower()
Lower(s) == [k \in 1..Len(s) |-> LowerChar(s[k])]

\* str.replace(' ', '_')
ReplaceSpaces(s) == [k \in 1..Len(s) |-> IF s[k] = " " THEN "_" ELSE s[k]]

IsSpace(c) == c \in {" ", "\t", "\n"}

RECURSIVE LStrip(_)
LStrip(s) == IF s # <<>> /\ IsSpace(Head(s)) THEN LStrip(Tail(s)) ELSE s

RECURSIVE RStrip(_)
RStrip(s) ==
    IF s # <<>> /\ IsSpace(s[Len(s)]) THEN RStrip(SubSeq(s, 1, Len(s) - 1)) ELSE s

\* Tag.get_text(strip=True) of an element holding the raw text s
GetTextStrip(s) == RStrip(LStrip(s))

RECURSIVE ZeroPad(_, _)
ZeroPad(n, width) ==
    IF width = 0 THEN <<>>
    ELSE ZeroPad(n \div 10, width - 1) \o <<DigitChars[(n % 10) + 1]>>

\* datetime.isoformat() of the instant t microseconds after the whole second
\* the run starts in: the fraction is printed only when it is not zero
Isoformat(t) ==
    <<"T">> \o (IF t = 0 THEN <<>> ELSE <<".">> \o ZeroPad(t, 6))

(***************************************************************************)
(* Source registry.                                                        *)
(***************************************************************************)
Url(netloc, path) == [scheme |-> "https", netloc |-> netloc, path |-> path]

SOURCES == <<
    [name |-> <<"S","p","a","r","k","L","a","b","s"," ","T","a","i","w","a","n">>,
     url |-> Url("www.sparklabstaiwan.com", ""),
     selector |-> "article, .post, [class*=\"news\"]"],
    [name |-> <<"S","t","a","r","t","u","p"," ","1","0","1">>,
     url |-> Url("startup101.biz", "/"),
     selector |-> "article, .post, [class*=\"article\"]"],
    [name |-> <<"8","8","6"," ","S","t","u","d","i","o","s">>,
     url |-> Url("886studios.com", "/resources"),
     selector |-> "div[class*=\"resource\"], article, .post"],
    [name |-> <<"5","0","0"," ","G","l","o","b","a","l">>,
     url |-> Url("500.co", "/"),
     selector |-> "article, .news, [class*=\"post\"]"],
    [name |-> <<"A","p","p","W","o","r","k","s">>,
     url |-> Url("appworks.tw", "/"),
     selector |-> "article, .post, [class*=\"news\"]"] >>

\* urlparse(url).netloc
Netloc(url) == url.netloc

\* urljoin(base, href) for the href forms the pages carry: an absolute URL
\* replaces the base, an absolute path keeps scheme and host, an empty
\* reference is the base itself
UrlJoin(base, href) ==
    CASE href.kind = "absolute" -> href.url
      [] href.kind = "path"     -> [base EXCEPT !.path = href.path]
      [] OTHER                  -> base

(***************************************************************************)
(* Pages: what soup.select(selector) and select_one(...) find.             *)
(***************************************************************************)
NotFound == [found |-> FALSE]
Found(text) == [found |-> TRUE, text |-> text]
Anchor(href) == [found |-> TRUE, has_href |-> TRUE, href |-> href]
AnchorNoHref == [found |-> TRUE, has_href |-> FALSE]

\* truth value of what select_one returns: None is false, a Tag is true
\* whatever it contains
Truthy(sub) == sub.found

RawTexts == { <<" ">>, <<"N","e","w","s">> }
Hrefs == { [kind |-> "path", path |-> "/p"],
           [kind |-> "absolute", url |-> Url("t.co", "/x")] }

SubElems == {NotFound} \cup {Found(t) : t \in RawTexts}
Anchors == {NotFound, AnchorNoHref} \cup {Anchor(h) : h \in Hrefs}

Elem(title, content, link) == [title |-> title, content |-> content, link |-> link]

\* candidate elements; the anchor varies only where the code reads it, that
\* is when title and content were both found
Candidates ==
    { e \in { Elem(t, c, l) : t \in SubElems, c \in SubElems, l \in Anchors } :
        (~e.title.found \/ ~e.content.found) => e.link = NotFound }

\* a page longer than the per-source limit, every candidate extractable
LongPage ==
    [k \in 1..6 |->
        Elem(Found(<<"N","e","w","s">>), Found(<<"N","e","w","s">>), NotFound)]

(***************************************************************************)
(* Exceptions: the classes the code can meet and their base classes.       *)
(***************************************************************************)
NoError == "none"

Ancestors(cls) ==
    CASE cls \in {"ConnectionError", "Timeout", "HTTPError"} ->
            {cls, "RequestException", "OSError", "Exception", "BaseException"}
      [] cls = "KeyError" ->
            {cls, "LookupError", "Exception", "BaseException"}
      [] cls = "JSONDecodeError" ->
            {cls, "ValueError", "Exception", "BaseException"}
      [] cls \in {"AttributeError", "MemoryError", "RuntimeError",
                  "ServiceUnavailable", "GoogleAPICallError"} ->
            {cls, "Exception", "BaseException"}
      [] OTHER -> {cls, "BaseException"}

\* does `except handler:` catch an exception of class cls
Catches(handler, cls) == handler \in Ancestors(cls)

(***************************************************************************)
(* The clock: datetime.utcnow() never runs backwards within a run here,    *)
(* and two readings may be equal.                                          *)
(***************************************************************************)
RECURSIVE Readings(_, _)
\* the possible results of n successive clock readings, the last reading
\* before them being `from`
Readings(n, from) ==
    IF n = 0 THEN { <<>> }
    ELSE UNION { { <<t>> \o r : r \in Readings(n - 1, t) } : t \in from..MaxTime }

\* n successive readings of a clock that moves by `step` between readings
SteadyReadings(n, from, step) == { [k \in 1..n |-> from + k * step] }

LastReading(clk, from) == IF clk = <<>> THEN from ELSE clk[Len(clk)]

(***************************************************************************)
(* Fetcher.                                                                *)
(***************************************************************************)
\* variant: only server errors are treated as failures
RaisesForStatusServerOnly(status) == status >= 500 /\ status < 600

\* requests: raise_for_status() raises HTTPError for 4xx and 5xx
RaisesForStatus(status) == status >= 400 /\ status < 600

\* elements[:5]
PerSourceLimit == 5

FirstElems(elements) ==
    SubSeq(elements, 1,
           IF Len(elements) < PerSourceLimit THEN Len(elements) ELSE PerSourceLimit)

\* the exception class fetch_news' handler names
FetchHandler == "Exception"

\* the condition under which a candidate becomes a record
HasTitleAndContent(elem) == Truthy(elem.title) /\ Truthy(elem.content)

\* the dict appended for one candidate, t being the clock reading
ArticleOf(source, elem, t) ==
    [source     |-> source.name,
     title      |-> GetTextStrip(elem.title.text),
     content    |-> GetTextStrip(elem.content.text),
     link       |-> IF Truthy(elem.link) THEN UrlJoin(source.url, elem.link.href)
                    ELSE source.url,
     fetched_at |-> Isoformat(t),
     domain     |-> Netloc(source.url)]

\* variant: an error discards the records appended before it
FetchOutcomeDropsRecords(articles, error) ==
    [articles   |-> IF error = NoError THEN articles ELSE <<>>,
     error      |-> error,
     propagated |-> error # NoError /\ ~Catches(FetchHandler, error)]

\* what the try block leaves behind when it ends with `error`
FetchOutcome(articles, error) ==
    [articles   |-> articles,
     error      |-> error,
     propagated |-> error # NoError /\ ~Catches(FetchHandler, error)]

RECURSIVE Extract(_, _, _, _)
\* the for loop over the candidates; clk holds the clock readings, one per
\* record appended
Extract(source, elems, clk, acc) ==
    IF elems = <<>> THEN FetchOutcome(acc, NoError)
    ELSE LET elem == Head(elems) IN
         IF HasTitleAndContent(elem)
         THEN IF Truthy(elem.link) /\ ~elem.link.has_href
              THEN FetchOutcome(acc, "KeyError")
              ELSE Extract(source, Tail(elems), clk,
                           Append(acc, ArticleOf(source, elem, clk[Len(acc) + 1])))
         ELSE Extract(source, Tail(elems), clk, acc)

\* fetch_news(source) when session.get answers resp
fetch_news(source, resp, clk) ==
    IF resp.error # NoError THEN FetchOutcome(<<>>, resp.error)
    ELSE IF RaisesForStatus(resp.status) THEN FetchOutcome(<<>>, "HTTPError")
    ELSE Extract(source, FirstElems(resp.elements), clk, <<>>)

\* number of clock readings fetch_news takes on resp
RECURSIVE Emitted(_)
Emitted(elems) ==
    IF elems = <<>> THEN 0
    ELSE IF HasTitleAndContent(Head(elems))
         THEN IF Truthy(Head(elems).link) /\ ~Head(elems).link.has_href
              THEN 0
              ELSE 1 + Emitted(Tail(elems))
         ELSE Emitted(Tail(elems))

ClockReads(resp) ==
    IF resp.error # NoError \/ RaisesForStatus(resp.status) THEN 0
    ELSE Emitted(FirstElems(resp.elements))

(***************************************************************************)
(* Enricher.                                                               *)
(***************************************************************************)
\* os.environ.get('GEMINI_API_KEY'): unset, or a string that may be empty
NoKey == [set |-> FALSE]
Key(value) == [set |-> TRUE, value |-> value]
Keys == {NoKey, Key(""), Key("k")}

\* truth value of self.gemini_api_key
KeyTruthy(key) == key.set /\ key.value # ""

\* what model.generate_content answers: it raises, or it returns a text
Raises(cls) == [error |-> cls]
Text(t) == [error |-> NoError, text |-> t]

NotJson == [json |-> FALSE]
JsonObject(items) == [json |-> TRUE, value |-> [type |-> "object", items |-> items]]
JsonArray == [json |-> TRUE, value |-> [type |-> "array"]]

FullAnalysis ==
    [summary |-> "S", category |-> "Funding", entities |-> <<"e">>,
     relevance_score |-> 7]
PartialAnalysis == [summary |-> "S"]
EmptyAnalysis == [k \in {} |-> ""]

\* json.loads(text)
JsonLoads(text) ==
    IF text.json THEN [error |-> NoError, value |-> text.value]
    ELSE [error |-> "JSONDecodeError"]

\* analysis.get(key, default)
DictGet(items, key, default) ==
    IF key \in DOMAIN items THEN items[key] ELSE default

\* variant: the article is replaced by the enrichment fields
DictReplace(article, d) == d

\* dict.update
DictUpdate(article, d) ==
    [k \in DOMAIN article \cup DOMAIN d |->
        IF k \in DOMAIN d THEN d[k] ELSE article[k]]

EnrichmentKeys ==
    {"summary", "category", "entities", "relevance_score", "processed_at"}
CoreKeys == {"source", "title", "content", "link", "fetched_at", "domain"}

\* the dict handed to article.update, t being the clock reading
Enrichment(items, t) ==
    [summary         |-> DictGet(items, "summary", ""),
     category        |-> DictGet(items, "category", "Other"),
     entities        |-> DictGet(items, "entities", <<>>),
     relevance_score |-> DictGet(items, "relevance_score", 5),
     processed_at    |-> Isoformat(t)]

\* variants: the inner handler names an unrelated class; the outer handler
\* names a class the service's errors do not derive from
ParseHandlerWrongClass == "KeyError"
EnrichHandlerNarrow == "ValueError"

\* the exception classes the two handlers of process_with_gemini name
ParseHandler == "JSONDecodeError"
EnrichHandler == "Exception"

\* the inner try block for one article: the error it ends with, if any
AnalysisError(resp) ==
    LET parsed == JsonLoads(resp.text) IN
    IF parsed.error # NoError THEN parsed.error
    ELSE IF parsed.value.type # "object" THEN "AttributeError"
    ELSE NoError

\* one iteration of the for loop: the article afterwards, whether it was
\* updated, and the error leaving the iteration
EnrichOne(article, resp, clk, reads) ==
    IF resp.error # NoError
    THEN [article |-> article, updated |-> FALSE, error |-> resp.error]
    ELSE LET err == AnalysisError(resp) IN
         IF err = NoError
         THEN [article |-> DictUpdate(article,
                              Enrichment(JsonLoads(resp.text).value.items,
                                         clk[reads + 1])),
               updated |-> TRUE, error |-> NoError]
         ELSE [article |-> article, updated |-> FALSE,
               error |-> IF Catches(ParseHandler, err) THEN NoError ELSE err]

EnrichOutcome(articles, calls, error) ==
    [articles   |-> articles,
     calls      |-> calls,
     error      |-> error,
     propagated |-> error # NoError /\ ~Catches(EnrichHandler, error)]

RECURSIVE EnrichFrom(_, _, _, _, _)
\* the for loop from article k on
EnrichFrom(articles, k, resps, clk, reads) ==
    IF k > Len(articles) THEN EnrichOutcome(articles, k - 1, NoError)
    ELSE LET one == EnrichOne(articles[k], resps[k], clk, reads) IN
         IF one.error # NoError THEN EnrichOutcome(articles, k, one.error)
         ELSE EnrichFrom([articles EXCEPT ![k] = one.article], k + 1, resps, clk,
                         IF one.updated THEN reads + 1 ELSE reads)

\* the guard of process_with_gemini
SkipsEnrichment(key, articles) == ~KeyTruthy(key) \/ articles = <<>>

\* process_with_gemini(articles) when the service answers resps
process_with_gemini(key, articles, resps, clk) ==
    IF SkipsEnrichment(key, articles) THEN EnrichOutcome(articles, 0, NoError)
    ELSE EnrichFrom(articles, 1, resps, clk, 0)

RECURSIVE UpdatesFrom(_, _)
UpdatesFrom(resps, k) ==
    IF k > Len(resps) THEN 0
    ELSE IF resps[k].error # NoError THEN 0
    ELSE IF AnalysisError(resps[k]) = NoError THEN 1 + UpdatesFrom(resps, k + 1)
    ELSE IF Catches(ParseHandler, AnalysisError(resps[k]))
         THEN UpdatesFrom(resps, k + 1)
    ELSE 0

\* number of clock readings process_with_gemini takes
EnrichReads(key, articles, resps) ==
    IF SkipsEnrichment(key, articles) THEN 0 ELSE UpdatesFrom(resps, 1)

(***************************************************************************)
(* Persister.                                                              *)
(***************************************************************************)
\* f"{article['source'].lower().replace(' ', '_')}_{article['fetched_at']}"
doc_id(article) ==
    ReplaceSpaces(Lower(article.source)) \o <<"_">> \o article.fetched_at

\* variant: an existing document is left as it is (first write wins)
DocumentSetKeepsFirst(docs, id, article) ==
    [k \in DOMAIN docs \cup {id} |-> IF k \in DOMAIN docs THEN docs[k] ELSE article]

\* db.collection('articles').document(id).set(article)
DocumentSet(docs, id, article) ==
    [k \in DOMAIN docs \cup {id} |-> IF k = id THEN article ELSE docs[k]]

\* variant: the handler names a class the store's errors do not derive from
StoreHandlerNarrow == "KeyError"

StoreHandler == "Exception"

StoreOutcome(docs, count, propagated) ==
    [db |-> docs, count |-> count, propagated |-> propagated]

RECURSIVE StoreFrom(_, _, _, _, _)
\* the for loop from article k on; outcomes[k] is the error set() raises for
\* article k, or NoError
StoreFrom(docs, articles, outcomes, k, count) ==
    IF k > Len(articles) THEN StoreOutcome(docs, count, FALSE)
    ELSE IF outcomes[k] = NoError
         THEN StoreFrom(DocumentSet(docs, doc_id(articles[k]), articles[k]),
                        articles, outcomes, k + 1, count + 1)
    ELSE IF Catches(StoreHandler, outcomes[k])
         THEN StoreFrom(docs, articles, outcomes, k + 1, count)
    ELSE StoreOutcome(docs, count, TRUE)

\* store_articles(articles)
store_articles(docs, articles, outcomes) ==
    StoreFrom(docs, articles, outcomes, 1, 0)

(***************************************************************************)
(* Orchestrator and entry point.                                           *)
(***************************************************************************)
\* variant: the two counts are swapped
RunSummarySwapped(articles, count, t) ==
    [status           |-> "success",
     fetched_articles |-> count,
     stored_articles  |-> Len(articles),
     timestamp        |-> Isoformat(t)]

\* the dict run() returns
RunSummary(articles, count, t) ==
    [status           |-> "success",
     fetched_articles |-> Len(articles),
     stored_articles  |-> count,
     timestamp        |-> Isoformat(t)]

Pending == [kind |-> "pending"]
\* json.dumps(d)
JsonDumps(d) == [kind |-> "json", body |-> d]
\* the function ends without a return statement
ReturnsNone == [kind |-> "none"]
\* the exception leaves main
Propagates(e) == [kind |-> "raised", cls |-> e.cls]

NoExc == [cls |-> NoError, msg |-> ""]
\* exceptions raised outside the per-source and per-item handlers
Escaping ==
    { [cls |-> "RuntimeError", msg |-> "boom"],
      [cls |-> "MemoryError", msg |-> ""],
      [cls |-> "SystemExit", msg |-> ""] }

MainHandler == "Exception"

\* main's except clause: the handler is the logger.error call on its line;
\* the return statement that follows it is not inside the function body
MainOnError(e) ==
    IF Catches(MainHandler, e.cls) THEN ReturnsNone ELSE Propagates(e)

(***************************************************************************)
(* The environment's inputs.                                               *)
(***************************************************************************)
BoundedSeqs(S, n) == UNION { [1..k -> S] : k \in 0..n }

Failure(cls) == [error |-> cls]
Ok(status, elements) == [error |-> NoError, status |-> status, elements |-> elements]

Statuses == {200, 300, 404, 503}

GoodElem == Elem(Found(<<"N","e","w","s">>), Found(<<"N","e","w","s">>), NotFound)
BrokenAnchorElem ==
    Elem(Found(<<"N","e","w","s">>), Found(<<"N","e","w","s">>), AnchorNoHref)

\* answers to session.get in the single-call specification
FetchResponses ==
    {Failure("ConnectionError"), Failure("Timeout")}
    \cup { Ok(st, p) : st \in Statuses,
                       p \in BoundedSeqs(Candidates, MaxElems) \cup {LongPage} }

\* answers to session.get in a pipeline run with room for `room` more records
RunResponses(room) ==
    {Failure("Timeout")}
    \cup { Ok(st, p) : st \in {200, 503},
                       p \in BoundedSeqs({GoodElem, BrokenAnchorElem}, room) }

\* answers of the AI service
AIResponses ==
    { Raises("ServiceUnavailable"), Text(NotJson), Text(JsonArray),
      Text(JsonObject(FullAnalysis)), Text(JsonObject(PartialAnalysis)),
      Text(JsonObject(EmptyAnalysis)) }

RunAIResponses ==
    { Raises("ServiceUnavailable"), Text(JsonObject(FullAnalysis)) }

\* what document(id).set raises, if anything
WriteOutcomes == {NoError, "GoogleAPICallError"}

LinkedElem ==
    Elem(Found(<<"N","e","w","s">>), Found(<<"N","e","w","s">>),
         Anchor([kind |-> "path", path |-> "/p"]))

\* pages whose candidates are all extractable, with and without a link
GoodPages(n) == BoundedSeqs({GoodElem, LinkedElem}, n)

(***************************************************************************)
(* State machine.                                                          *)
(***************************************************************************)
NoCall == [called |-> FALSE]
NoSummary == [status |-> "none"]
NoDocs == [k \in {} |-> NoSummary]

Fresh ==
    /\ i = 0
    /\ all_articles = <<>>
    /\ now = 0
    /\ db = NoDocs
    /\ stored = 0
    /\ ai_calls = 0
    /\ fetched = NoCall
    /\ fetch_total = 0
    /\ failed_sources = 0
    /\ batch_in = <<>>
    /\ responses = <<>>
    /\ writes = <<>>
    /\ summary = NoSummary
    /\ exc = NoExc
    /\ result = Pending
    /\ clock_step = 0

\* main(request) has constructed the NewsAggregator and entered run()
Init ==
    /\ i = 0
    /\ all_articles = <<>>
    /\ now = 0
    /\ db = NoDocs
    /\ stored = 0
    /\ ai_calls = 0
    /\ fetched = NoCall
    /\ fetch_total = 0
    /\ failed_sources = 0
    /\ batch_in = <<>>
    /\ responses = <<>>
    /\ writes = <<>>
    /\ summary = NoSummary
    /\ exc = NoExc
    /\ result = Pending
    /\ pc = "fetch"
    /\ gemini_api_key \in Keys
    /\ clock_step \in {0, 1}

\* an exception e escapes run(): its locals are gone, the documents stay
Unwind(e) ==
    /\ pc' = "except"
    /\ exc' = e
    /\ i' = 0
    /\ all_articles' = <<>>
    /\ fetched' = NoCall
    /\ batch_in' = <<>>
    /\ responses' = <<>>
    /\ writes' = <<>>
    /\ fetch_total' = 0
    /\ failed_sources' = 0
    /\ ai_calls' = 0
    /\ stored' = 0
    /\ UNCHANGED <<gemini_api_key, now, db, summary, result, clock_step>>

\* one iteration of run()'s loop over SOURCES
RunFetch ==
    /\ pc = "fetch"
    /\ i < Len(SOURCES)
    /\ \E resp \in RunResponses(MaxBatch - Len(all_articles)) :
       \E clk \in SteadyReadings(ClockReads(resp), now, clock_step) :
          LET out == fetch_news(SOURCES[i + 1], resp, clk) IN
          IF out.propagated THEN Unwind([cls |-> out.error, msg |-> ""])
          ELSE
          /\ fetched' = [called |-> TRUE, source |-> i + 1, resp |-> resp,
                         out |-> out]
          /\ all_articles' = all_articles \o out.articles
          /\ fetch_total' = fetch_total + Len(out.articles)
          /\ failed_sources' =
                 failed_sources + (IF out.error # NoError THEN 1 ELSE 0)
          /\ now' = LastReading(clk, now)
          /\ i' = i + 1
          /\ pc' = IF i + 1 = Len(SOURCES) THEN "enrich" ELSE "fetch"
          /\ UNCHANGED <<gemini_api_key, db, stored, ai_calls, batch_in,
                         responses, writes, summary, exc, result, clock_step>>

\* run(): `if self.gemini_api_key: all_articles = self.process_with_gemini(...)`
RunEnrich ==
    /\ pc = "enrich"
    /\ IF KeyTruthy(gemini_api_key)
       THEN \E resps \in [1..Len(all_articles) -> RunAIResponses] :
            \E clk \in SteadyReadings(EnrichReads(gemini_api_key, all_articles,
                                                   resps), now, clock_step) :
               LET out == process_with_gemini(gemini_api_key, all_articles,
                                              resps, clk) IN
               IF out.propagated THEN Unwind([cls |-> out.error, msg |-> ""])
               ELSE
               /\ all_articles' = out.articles
               /\ ai_calls' = out.calls
               /\ responses' = SubSeq(resps, 1, out.calls)
               /\ batch_in' = all_articles
               /\ now' = LastReading(clk, now)
               /\ pc' = "store"
               /\ fetched' = NoCall
               /\ UNCHANGED <<i, gemini_api_key, db, stored, fetch_total,
                              failed_sources, writes, summary, exc, result, clock_step>>
       ELSE /\ pc' = "store"
            /\ fetched' = NoCall
            /\ UNCHANGED <<i, gemini_api_key, all_articles, now, db, stored,
                           ai_calls, fetch_total, failed_sources, batch_in,
                           responses, writes, summary, exc, result, clock_step>>

\* run(): stored = self.store_articles(all_articles) and the summary it
\* returns; main(): return json.dumps(result)
RunStore ==
    /\ pc = "store"
    /\ \E outcomes \in [1..Len(all_articles) -> WriteOutcomes] :
       \E t \in {now + clock_step} :
          LET out == store_articles(db, all_articles, outcomes) IN
          IF out.propagated THEN Unwind([cls |-> "GoogleAPICallError", msg |-> ""])
          ELSE
          /\ db' = out.db
          /\ stored' = out.count
          /\ writes' = outcomes
          /\ summary' = RunSummary(all_articles, out.count, t)
          /\ now' = t
          /\ result' = JsonDumps(RunSummary(all_articles, out.count, t))
          /\ pc' = "done"
          /\ UNCHANGED <<i, gemini_api_key, all_articles, ai_calls, fetched,
                         fetch_total, failed_sources, batch_in, responses,
                         exc, clock_step>>

\* an exception is raised in run() outside every per-source and per-item
\* handler (a logging call, an allocation, the worker being told to exit)
Crash ==
    /\ pc \in {"fetch", "enrich", "store"}
    /\ \E e \in Escaping : Unwind(e)

\* main(): the except clause
MainExcept ==
    /\ pc = "except"
    /\ result' = MainOnError(exc)
    /\ pc' = "done"
    /\ UNCHANGED <<i, gemini_api_key, all_articles, now, db, stored, ai_calls,
                   fetched, fetch_total, failed_sources, batch_in, responses,
                   writes, summary, exc, clock_step>>

Next == RunFetch \/ RunEnrich \/ RunStore \/ Crash \/ MainExcept

Spec == Init /\ [][Next]_vars

(***************************************************************************)
(* Single calls of fetch_news and process_with_gemini on wider inputs.     *)
(***************************************************************************)
InitFetch ==
    /\ Fresh
    /\ pc = "call_fetch"
    /\ gemini_api_key = NoKey

CallFetch ==
    /\ pc = "call_fetch"
    /\ \E s \in 1..Len(SOURCES), resp \in FetchResponses :
       \E clk \in Readings(ClockReads(resp), now) :
          /\ fetched' = [called |-> TRUE, source |-> s, resp |-> resp,
                         out |-> fetch_news(SOURCES[s], resp, clk)]
          /\ now' = LastReading(clk, now)
    /\ pc' = "returned"
    /\ UNCHANGED <<i, gemini_api_key, all_articles, db, stored, ai_calls,
                   fetch_total, failed_sources, batch_in, responses, writes,
                   summary, exc, result, clock_step>>

SpecFetch == InitFetch /\ [][CallFetch]_vars

\* a batch as fetch_news returns it is handed to process_with_gemini
InitEnrich ==
    /\ i = 0
    /\ db = NoDocs
    /\ stored = 0
    /\ ai_calls = 0
    /\ fetched = NoCall
    /\ fetch_total = 0
    /\ failed_sources = 0
    /\ batch_in = <<>>
    /\ responses = <<>>
    /\ writes = <<>>
    /\ summary = NoSummary
    /\ exc = NoExc
    /\ result = Pending
    /\ clock_step = 0
    /\ pc = "call_enrich"
    /\ gemini_api_key \in Keys
    /\ \E s \in 1..Len(SOURCES), n \in 0..MaxBatch :
       \E clk \in Readings(n, 0) :
          /\ all_articles =
                 fetch_news(SOURCES[s], Ok(200, [k \in 1..n |-> GoodElem]), clk).articles
          /\ now = LastReading(clk, 0)

CallEnrich ==
    /\ pc = "call_enrich"
    /\ \E resps \in [1..Len(all_articles) -> AIResponses] :
       \E clk \in Readings(EnrichReads(gemini_api_key, all_articles, resps), now) :
          LET out == process_with_gemini(gemini_api_key, all_articles, resps, clk) IN
          /\ all_articles' = out.articles
          /\ ai_calls' = out.calls
          /\ responses' = SubSeq(resps, 1, out.calls)
          /\ batch_in' = all_articles
          /\ now' = LastReading(clk, now)
          /\ exc' = IF out.propagated THEN [cls |-> out.error, msg |-> ""] ELSE NoExc
    /\ pc' = "returned"
    /\ UNCHANGED <<i, gemini_api_key, db, stored, fetched, fetch_total,
                   failed_sources, writes, summary, result, clock_step>>

SpecEnrich == InitEnrich /\ [][CallEnrich]_vars

\* a batch as fetch_news returns it is handed to store_articles
InitStore ==
    /\ i = 0
    /\ db = NoDocs
    /\ stored = 0
    /\ ai_calls = 0
    /\ fetched = NoCall
    /\ fetch_total = 0
    /\ failed_sources = 0
    /\ batch_in = <<>>
    /\ responses = <<>>
    /\ writes = <<>>
    /\ summary = NoSummary
    /\ exc = NoExc
    /\ result = Pending
    /\ clock_step = 0
    /\ pc = "call_store"
    /\ gemini_api_key = NoKey
    /\ \E s \in 1..Len(SOURCES), p \in GoodPages(MaxBatch) :
       \E clk \in Readings(Len(p), 0) :
          /\ all_articles = fetch_news(SOURCES[s], Ok(200, p), clk).articles
          /\ now = LastReading(clk, 0)

CallStore ==
    /\ pc = "call_store"
    /\ \E outcomes \in [1..Len(all_articles) -> WriteOutcomes] :
          LET out == store_articles(db, all_articles, outcomes) IN
          /\ db' = out.db
          /\ stored' = out.count
          /\ writes' = outcomes
          /\ exc' = IF out.propagated
                    THEN [cls |-> "GoogleAPICallError", msg |-> ""] ELSE NoExc
    /\ pc' = "returned"
    /\ UNCHANGED <<i, gemini_api_key, all_articles, now, ai_calls, fetched,
                   fetch_total, failed_sources, batch_in, responses, summary,
                   result, clock_step>>

SpecStore == InitStore /\ [][CallStore]_vars

(***************************************************************************)
(* Properties of fetch_news (checked under SpecFetch).                     *)
(***************************************************************************)
\* position k of the page holds a candidate the loop turns into a record
Extractable(elem) ==
    /\ elem.title.found
    /\ elem.content.found
    /\ (elem.link.found => elem.link.has_href)

\* C1 as stated: fetch_news never lets an exception through, and whenever
\* the GET fails -- a transport error, a timeout or any status outside
\* 200..299 -- it returns the empty sequence.
C1_Non2xxYieldsEmpty ==
    fetched.called =>
        /\ ~fetched.out.propagated
        /\ (fetched.resp.error # NoError => fetched.out.articles = <<>>)
        /\ (fetched.resp.error = NoError
              /\ (fetched.resp.status < 200 \/ fetched.resp.status > 299)
              => fetched.out.articles = <<>>)

\* C1 amended: fetch_news never lets an exception through, and whenever the
\* GET fails with a transport error, a timeout or a 4xx/5xx status it
\* returns the empty sequence (a final response with another status, such
\* as 300, is parsed like a 200 one).
C1_FailedGetYieldsEmpty ==
    fetched.called =>
        /\ ~fetched.out.propagated
        /\ (fetched.resp.error # NoError => fetched.out.articles = <<>>)
        /\ (fetched.resp.error = NoError
              /\ fetched.resp.status >= 400 /\ fetched.resp.status <= 599
              => fetched.out.articles = <<>>)

\* a 404 answer whose body holds an extractable candidate came back empty
C1_Witness ==
    /\ fetched.called
    /\ fetched.resp.error = NoError
    /\ fetched.resp.status = 404
    /\ fetched.resp.elements # <<>>
    /\ Extractable(fetched.resp.elements[1])
    /\ fetched.out.articles = <<>>
    /\ fetched.out.error = "HTTPError"

\* C2 as stated: every record fetch_news returns has a non-empty title and
\* a non-empty content.
C2_TitleAndContentNonEmpty ==
    fetched.called =>
        \A k \in 1..Len(fetched.out.articles) :
            /\ fetched.out.articles[k].title # <<>>
            /\ fetched.out.articles[k].content # <<>>

(***************************************************************************)
(* Properties of process_with_gemini (checked under SpecEnrich).           *)
(***************************************************************************)
HasEnrichment(article) == EnrichmentKeys \subseteq DOMAIN article
NoEnrichment(article) == DOMAIN article \cap EnrichmentKeys = {}

RecognizedKeys == {"summary", "category", "entities", "relevance_score"}

\* the text does not parse as JSON
Unparseable(resp) == resp.error = NoError /\ ~resp.text.json
\* the text parses to a JSON mapping
IsMapping(resp) ==
    resp.error = NoError /\ resp.text.json /\ resp.text.value.type = "object"
\* the text parses to a mapping holding every recognized key
WellShaped(resp) ==
    IsMapping(resp) /\ RecognizedKeys \subseteq DOMAIN resp.text.value.items
\* the text is not JSON, or is JSON but no mapping with a recognized key
Unexpected(resp) ==
    /\ resp.error = NoError
    /\ ~(IsMapping(resp) /\ DOMAIN resp.text.value.items \cap RecognizedKeys # {})

C8_EnricherPreservesBatch ==
    pc = "returned" =>
        /\ Len(all_articles) = Len(batch_in)
        /\ \A k \in 1..Len(all_articles) :
              /\ CoreKeys \subseteq DOMAIN all_articles[k]
              /\ \A f \in CoreKeys : all_articles[k][f] = batch_in[k][f]
        /\ (gemini_api_key \in {NoKey, Key("")} =>
              /\ all_articles = batch_in
              /\ ai_calls = 0)

\* a batch of three with one article enriched, one answered by unparseable
\* text and one by a failing call
C8_Witness ==
    /\ pc = "returned"
    /\ Len(batch_in) = 3
    /\ responses = << Text(JsonObject(FullAnalysis)), Text(NotJson),
                      Raises("ServiceUnavailable") >>
    /\ HasEnrichment(all_articles[1])
    /\ all_articles[1].fetched_at = batch_in[1].fetched_at
    /\ all_articles[1].fetched_at # all_articles[3].fetched_at

(***************************************************************************)
(* Properties of store_articles (checked under SpecStore).                 *)
(***************************************************************************)
Completed == { k \in 1..Len(writes) : writes[k] = NoError }

\* C6: store_articles never raises and returns the number of articles whose
\* set() completed; an article whose write fails is skipped and the later
\* ones are still written; 0 <= count <= len(articles).
C6_StoreCountsCompletedUpserts ==
    pc = "returned" =>
        /\ exc = NoExc
        /\ stored = Cardinality(Completed)
        /\ stored >= 0
        /\ stored <= Len(all_articles)
        /\ \A k \in Completed : doc_id(all_articles[k]) \in DOMAIN db

\* the first write of three fails, the two later ones are stored
C6_Witness ==
    /\ pc = "returned"
    /\ Len(all_articles) = 3
    /\ writes = << "GoogleAPICallError", NoError, NoError >>
    /\ stored = 2
    /\ doc_id(all_articles[3]) \in DOMAIN db

LastCompleted(id) ==
    CHOOSE k \in Completed :
        /\ doc_id(all_articles[k]) = id
        /\ \A j \in Completed : doc_id(all_articles[j]) = id => j <= k

\* C10: the document id is lower(source) with spaces turned into
\* underscores, "_" and fetched_at, so records with the same source and
\* fetched_at share it; after store_articles each document is the last
\* record of the batch written under its id, every completed write counted
\* one, and the documents are at most as many as the count.
C10_LastWriteWins ==
    pc = "returned" =>
        /\ \A k \in 1..Len(all_articles) :
              all_articles[k].source = SOURCES[1].name =>
                 doc_id(all_articles[k]) =
                    <<"s","p","a","r","k","l","a","b","s","_",
                      "t","a","i","w","a","n","_">> \o all_articles[k].fetched_at
        /\ \A j, k \in 1..Len(all_articles) :
              (all_articles[j].source = all_articles[k].source
                 /\ all_articles[j].fetched_at = all_articles[k].fetched_at)
              => doc_id(all_articles[j]) = doc_id(all_articles[k])
        /\ DOMAIN db = { doc_id(all_articles[k]) : k \in Completed }
        /\ \A id \in DOMAIN db : db[id] = all_articles[LastCompleted(id)]
        /\ stored = Cardinality(Completed)
        /\ Cardinality(DOMAIN db) <= stored

\* two different records of one source fetched at the same instant, both
\* written: one document, the later record, and a count of two
C10_Witness ==
    /\ pc = "returned"
    /\ Len(all_articles) = 2
    /\ all_articles[1].fetched_at = all_articles[2].fetched_at
    /\ all_articles[1] # all_articles[2]
    /\ writes = << NoError, NoError >>
    /\ db[doc_id(all_articles[1])] = all_articles[2]
    /\ stored = 2
    /\ Cardinality(DOMAIN db) = 1

(***************************************************************************)
(* Properties of run() and main(request) (checked under Spec).             *)
(***************************************************************************)
\* the records of all_articles that carry the name of source s
ContributedBy(s) ==
    SelectSeq(all_articles, LAMBDA a : a.source = SOURCES[s].name)

\* C3 as stated: a source whose fetch logged an error (network error,
\* non-2xx, or an error while extracting any of its candidates) has no
\* article in the run's batch.
C3_FailedSourceContributesNothing ==
    (fetched.called /\ fetched.out.error # NoError) =>
        ContributedBy(fetched.source) = <<>>

\* the candidate at position k of the page makes the extraction raise
RaisesAt(elements, k) ==
    /\ elements[k].title.found
    /\ elements[k].content.found
    /\ elements[k].link.found
    /\ ~elements[k].link.has_href

\* C3 amended: a fetch only appends to the batch, so the articles of the
\* other sources stay as they were; a source whose GET fails (transport
\* error, timeout, 4xx/5xx) contributes nothing; a source whose extraction
\* raises at candidate k contributes exactly the records of the candidates
\* with title and content that precede k.
C3_FailedSourceKeepsEarlierRecords ==
    [][ (pc = "fetch" /\ i' = i + 1) =>
           /\ fetched'.called
           /\ fetched'.source = i'
           /\ all_articles' = all_articles \o fetched'.out.articles
           /\ \A k \in 1..Len(fetched'.out.articles) :
                 fetched'.out.articles[k].source = SOURCES[i'].name
           /\ (fetched'.resp.error # NoError => fetched'.out.articles = <<>>)
           /\ (fetched'.out.error = "HTTPError" => fetched'.out.articles = <<>>)
           /\ (fetched'.out.error = "KeyError" =>
                 \E k \in 1..Len(fetched'.resp.elements) :
                    /\ RaisesAt(fetched'.resp.elements, k)
                    /\ \A j \in 1..(k - 1) : ~RaisesAt(fetched'.resp.elements, j)
                    /\ Len(fetched'.out.articles) =
                         Cardinality({ j \in 1..(k - 1) :
                             /\ fetched'.resp.elements[j].title.found
                             /\ fetched'.resp.elements[j].content.found }))
      ]_vars

\* a later source's extraction raised after one record, an earlier source's
\* article is still in the batch
C3_Witness ==
    /\ fetched.called
    /\ fetched.out.error = "KeyError"
    /\ Len(fetched.out.articles) = 1
    /\ Len(all_articles) = 2
    /\ all_articles[1].source # all_articles[2].source
    /\ all_articles[2] = fetched.out.articles[1]

\* C5 as stated: when an exception escapes run(), main(request) does not
\* propagate it and returns a JSON body with status "error" and a non-empty
\* message.
C5_MainReportsErrorAsJson ==
    (pc = "done" /\ exc # NoExc) =>
        /\ result.kind = "json"
        /\ result.body.status = "error"
        /\ result.body.message # ""

SourceIndex(name) == CHOOSE s \in 1..Len(SOURCES) : SOURCES[s].name = name

\* C7: the batch is the concatenation, in registry order, of what
\* fetch_news returned; a run() that returns reports status "success",
\* fetched_articles equal to the number of records the fetches returned,
\* and 0 <= stored_articles <= fetched_articles.
C7_RunSummaryCounts ==
    /\ (pc \in {"fetch", "enrich"} => Len(all_articles) = fetch_total)
    /\ \A j, k \in 1..Len(all_articles) :
          j < k => SourceIndex(all_articles[j].source)
                      <= SourceIndex(all_articles[k].source)
    /\ \A k \in 1..Len(all_articles) :
          all_articles[k].fetched_at = Isoformat(k * clock_step)
    /\ (pc = "done" /\ exc = NoExc) =>
          /\ summary.status = "success"
          /\ summary.fetched_articles = fetch_total
          /\ summary.stored_articles = stored
          /\ summary.stored_articles >= 0
          /\ summary.stored_articles <= summary.fetched_articles
          /\ result = JsonDumps(summary)

\* one source returned three records, every other source failed, enrichment
\* is off and every write completed: 3 fetched, 3 stored, success
C7_Witness ==
    /\ pc = "done"
    /\ exc = NoExc
    /\ ~KeyTruthy(gemini_api_key)
    /\ failed_sources = Len(SOURCES) - 1
    /\ Len(ContributedBy(1)) = 3
    /\ summary.fetched_articles = 3
    /\ summary.stored_articles = 3
    /\ summary.status = "success"

\* the last AI call issued failed
ServiceFailed == responses # <<>> /\ responses[Len(responses)].error # NoError

\* C9: a failing AI call for article k never escapes run(); the articles
\* before k keep their enrichment, article k and the later ones get none,
\* no call follows the failed one, the batch keeps its length, every
\* article is then handed to the store and run() returns "success".
C9_ServiceFailureStopsEnrichment ==
    /\ (pc \in {"except", "done"} => exc.cls # "ServiceUnavailable")
    /\ (pc \in {"store", "done"} /\ exc = NoExc /\ ServiceFailed) =>
          /\ ai_calls = Len(responses)
          /\ Len(all_articles) = Len(batch_in)
          /\ \A j \in 1..Len(all_articles) :
                IF j < ai_calls
                THEN IsMapping(responses[j]) => HasEnrichment(all_articles[j])
                ELSE all_articles[j] = batch_in[j] /\ NoEnrichment(all_articles[j])
    /\ (pc = "done" /\ exc = NoExc /\ ServiceFailed) =>
          /\ Len(writes) = Len(all_articles)
          /\ summary.status = "success"
          /\ summary.fetched_articles = Len(batch_in)

\* the second of three AI calls failed: article 1 is enriched, 2 and 3 are
\* not, all three were handed to the store and the run succeeded
C9_Witness ==
    /\ pc = "done"
    /\ exc = NoExc
    /\ Len(all_articles) = 3
    /\ responses = << Text(JsonObject(FullAnalysis)), Raises("ServiceUnavailable") >>
    /\ HasEnrichment(all_articles[1])
    /\ NoEnrichment(all_articles[2])
    /\ NoEnrichment(all_articles[3])
    /\ Len(writes) = 3
    /\ summary.status = "success"

====
